---------------------------- MODULE Spec2Model ----------------------------
(***************************************************************************)
(* pg_retire: a watchdog inside a PostgreSQL backend.  A one-shot timeout  *)
(* (utils/timeout.c) is armed when a query is accepted; when it expires    *)
(* the SIGALRM-driven handler writes a dummy message to the client socket  *)
(* and either re-arms the timeout (client alive) or sends SIGINT to the    *)
(* backend (client dead).                                                  *)
(*                                                                         *)
(* The module models src/pg_retire.c.  The backend's main flow runs the    *)
(* two hooks step by step; the alarm handler preempts it between any two   *)
(* steps and runs to completion before the main flow resumes.  Time is in  *)
(* whole seconds.  The timeout subsystem, the socket and the interrupt     *)
(* flags belong to the host; they are modelled at the calls the module     *)
(* makes on them.                                                          *)
(***************************************************************************)
EXTENDS Integers, Sequences, FiniteSets

(***************************************************************************)
(* Bounds of the model.                                                    *)
(***************************************************************************)
\* First instant of the model; timestamps are never 0, the value
\* get_timeout_finish_time gives for a timeout that was never enabled.
Epoch == 1
\* Seconds of model time after Epoch.
MaxTicks == 2
\* Largest small value of pg_retire.interval (seconds).
MaxInterval == 1
\* Bytes the socket takes at a time when it takes less than it is given.
Chunk == 16
\* Calls of write_cbuf on one buffer (send_dummy_message_to_frontend makes
\* at most four).
MaxAppends == 4

(***************************************************************************)
(* Program constants.                                                      *)
(***************************************************************************)
WBUFSIZE == 128
INT_MAX == 2147483647
INT_MIN == (-INT_MAX) - 1

\* C string literals as byte sequences (without the terminating NUL).
PGRETIRE_DUMMY_PAREMETER_NAME ==
    <<112, 103, 95, 114, 101, 116, 105, 114, 101, 95, 100, 117, 109, 109,
      121, 95, 110, 97, 109, 101>>
PGRETIRE_DUMMY_PAREMETER_VALUE ==
    <<112, 103, 95, 114, 101, 116, 105, 114, 101, 95, 100, 117, 109, 109,
      121, 95, 118, 97, 108, 117, 101>>
PGRETIRE_KEEP_ALIVE_MESSAGE ==
    <<107, 101, 101, 112, 32, 97, 108, 105, 118, 101, 32, 99, 104, 101, 99,
      107, 105, 110, 103, 32, 102, 114, 111, 109, 32, 112, 103, 95, 114,
      101, 116, 105, 114, 101>>
\* The bytes "S" and "N".
TagS == <<83>>
TagN == <<78>>

\* The array a string literal denotes: its bytes and the terminating NUL.
Literal(s) == Append(s, 0)
\* sizeof of a string literal.
SizeofLit(s) == Len(Literal(s))
\* sizeof(plen), an int.
SizeofInt == 4

(***************************************************************************)
(* 32-bit int arithmetic (the build wraps: PostgreSQL compiles -fwrapv).   *)
(* The operators never form an intermediate value outside the int range.   *)
(***************************************************************************)
Half == (INT_MAX \div 2) + 1

\* a + b in 32-bit two's complement, for a, b in the int range.
Add32(a, b) ==
    IF a >= 0 /\ b >= 0 /\ a > INT_MAX - b
    THEN ((a - Half) + (b - Half)) + INT_MIN
    ELSE IF a < 0 /\ b < 0 /\ a < INT_MIN - b
    THEN (((a + Half) + (b + Half)) + INT_MAX) + 1
    ELSE a + b

\* a * n in 32-bit two's complement, n a natural number (double and add).
RECURSIVE Mul32(_, _)
Mul32(a, n) ==
    IF n = 0 THEN 0
    ELSE LET h == Mul32(a, n \div 2)
             d == Add32(h, h)
         IN  IF n % 2 = 1 THEN Add32(d, a) ELSE d

\* #define MILLISECONDS(sec) (sec * 1000), on int.
MILLISECONDS(sec) == Mul32(sec, 1000)

\* The least interval whose milliseconds do not fit an int.
OverflowInterval == (INT_MAX \div 1000) + 1

\* Values of pg_retire.interval the model draws: the GUC admits 0..INT_MAX.
Intervals == (0 .. MaxInterval) \cup {OverflowInterval}

(***************************************************************************)
(* CharBuffer and the functions on it.  buf holds the bytes written so     *)
(* far (buf[1 .. pos]); the rest of the C array is never read.             *)
(***************************************************************************)
EmptyCbuf == [buf |-> <<>>, pos |-> 0]

\* Variant: the bytes are copied without the test of the capacity.
write_cbuf_NoCheck(cb, src, len) ==
    [cb  |-> [buf |-> cb.buf \o SubSeq(src, 1, len), pos |-> cb.pos + len],
     ret |-> len]

\* write_cbuf: the buffer after the call and the value returned.
write_cbuf(cb, src, len) ==
    IF cb.pos + len <= WBUFSIZE
    THEN [cb  |-> [buf |-> cb.buf \o SubSeq(src, 1, len), pos |-> cb.pos + len],
          ret |-> len]
    ELSE [cb |-> cb, ret |-> -1]

\* Variant: the bytes of v on a little-endian host, not swapped.
htonl_NotSwapped(v) ==
    << v % 256, (v \div 256) % 256, (v \div 65536) % 256, (v \div 16777216) % 256 >>

\* htonl(v) stored in an int: the four bytes in memory order, for v >= 0.
htonl(v) ==
    << (v \div 16777216) % 256, (v \div 65536) % 256, (v \div 256) % 256, v % 256 >>

\* The buffer send_dummy_message_to_frontend hands to flush_cbuf.  The
\* values write_cbuf returns are dropped, as in the source.
DummyMessage(proto) ==
    IF proto >= 3
    THEN LET c1   == write_cbuf(EmptyCbuf, TagS, 1).cb
             plen == SizeofLit(PGRETIRE_DUMMY_PAREMETER_NAME)
                     + SizeofLit(PGRETIRE_DUMMY_PAREMETER_VALUE) + SizeofInt
             c2   == write_cbuf(c1, htonl(plen), SizeofInt).cb
             c3   == write_cbuf(c2, Literal(PGRETIRE_DUMMY_PAREMETER_NAME),
                                SizeofLit(PGRETIRE_DUMMY_PAREMETER_NAME)).cb
         IN  write_cbuf(c3, Literal(PGRETIRE_DUMMY_PAREMETER_VALUE),
                        SizeofLit(PGRETIRE_DUMMY_PAREMETER_VALUE)).cb
    ELSE LET c1 == write_cbuf(EmptyCbuf, TagN, 1).cb
         IN  write_cbuf(c1, Literal(PGRETIRE_KEEP_ALIVE_MESSAGE),
                        SizeofLit(PGRETIRE_KEEP_ALIVE_MESSAGE)).cb

(***************************************************************************)
(* State.                                                                  *)
(***************************************************************************)
VARIABLES
    \* pg_retire.c, file scope
    MyTimeoutId,            \* "MAX_TIMEOUTS" (invalid) or "USER_TIMEOUT"
    pg_retire_enable,       \* GUC pg_retire.enable
    pg_retire_interval,     \* GUC pg_retire.interval, seconds
    \* the host backend
    InterruptPending,       \* miscadmin.h
    ParallelMessagePending, \* access/parallel.h
    errno,
    timeout,                \* all_timeouts[MyTimeoutId] of utils/timeout.c
    clock,                  \* GetCurrentTimestamp(), seconds
    port,                   \* MyProcPort: proto (major), ssl_in_use, peer
    \* the main flow: where it is, and the locals of maybeScheduleAlarm
    mpc,
    cmd,                    \* query->commandType of the unit of work
    timer_fired,
    now,
    \* the alarm handler: where it is, and the locals of the functions it runs
    hpc,
    save_errno,
    cb,
    wlen,
    offset,
    r,
    status,
    \* history of the current hook call, handler run and unit of work
    g,
    h,
    unit

vars ==
    << MyTimeoutId, pg_retire_enable, pg_retire_interval, InterruptPending,
       ParallelMessagePending, errno, timeout, clock, port, mpc, cmd,
       timer_fired, now, hpc, save_errno, cb, wlen, offset, r, status,
       g, h, unit >>

gucVars == << pg_retire_enable, pg_retire_interval >>
flagVars == << InterruptPending, ParallelMessagePending >>
mainLocals == << timer_fired, now >>
handlerLocals == << save_errno, cb, wlen, offset, r, status >>

\* errno values: no error, the two transient ones, and a hard one.
\* (EWOULDBLOCK is EAGAIN on the platforms PostgreSQL builds on.)
Errnos == {"0", "EINTR", "EAGAIN", "EPIPE"}
HardErrnos == {"EPIPE"}

\* History records, as they are outside a hook call / handler run / unit.
G0 == [ipChk |-> FALSE, pmpChk |-> FALSE, armed |-> FALSE, over |-> FALSE,
       ip |-> FALSE, fired |-> FALSE, ret |-> "none", pend0 |-> FALSE,
       fin0 |-> 0]
H0 == [probed |-> FALSE, called |-> FALSE, hard |-> FALSE,
       transient |-> TRUE, last |-> "none", assess |-> "None", cancels |-> 0, armed |-> FALSE, over |-> FALSE,
       ip |-> FALSE, ipChk |-> FALSE, pmpChk |-> FALSE, errno0 |-> "0"]
U0 == [at0 |-> FALSE, early |-> FALSE, cancels |-> 0, after |-> FALSE]

\* The main flow is inside a unit of work (from its hook call to its end).
InUnit == mpc \in {"hook", "ms_entry", "ms_fired", "ms_cmp", "ms_arm", "ret", "running"}
\* The main flow is inside pg_retire_post_parse_analyze.
InHook == mpc \in {"hook", "ms_entry", "ms_fired", "ms_cmp", "ms_arm", "ret"}

(***************************************************************************)
(* The macros and the decisions of the functions.                          *)
(***************************************************************************)
\* Variant: the timeout id is taken for valid always.
TIMEOUT_INVALID_Never == FALSE

\* #define TIMEOUT_INVALID()
TIMEOUT_INVALID == MyTimeoutId = "MAX_TIMEOUTS"

\* The condition under which RETURN_IF_INTERRUPT_PENDING returns.
RETURN_IF_INTERRUPT_PENDING == ~ParallelMessagePending /\ InterruptPending

\* Variant: without the return for a utility statement.
HookSchedules_UtilityToo ==
    /\ ~(TIMEOUT_INVALID \/ ~pg_retire_enable)
    /\ ~RETURN_IF_INTERRUPT_PENDING

\* Variant: without the test of pg_retire_enable.
HookSchedules_IgnoresEnable ==
    /\ ~TIMEOUT_INVALID
    /\ ~RETURN_IF_INTERRUPT_PENDING
    /\ cmd # "CMD_UTILITY"

\* pg_retire_post_parse_analyze up to its call of maybeScheduleAlarm:
\* TRUE when the hook goes on to call it.
HookSchedules ==
    /\ ~(TIMEOUT_INVALID \/ ~pg_retire_enable)
    /\ ~RETURN_IF_INTERRUPT_PENDING
    /\ cmd # "CMD_UTILITY"

\* Variant: returns true for a fired timeout without enabling it again.
MSA_AfterIndicator_NoEnable(fired) == IF fired THEN "return_true" ELSE "compare"

\* maybeScheduleAlarm after get_timeout_indicator: what it does next.
MSA_AfterIndicator(fired) == IF fired THEN "arm" ELSE "compare"

\* maybeScheduleAlarm after reading now and fin_time: what it does next.
MSA_AfterCompare(nowv, fin_time) ==
    IF fin_time # 0 /\ nowv < fin_time THEN "return_false" ELSE "arm"

\* enable_timeout_after(MyTimeoutId, delay_ms) of utils/timeout.c: the
\* timeout leaves the active list if it was there, its indicator is reset,
\* and it is queued to finish delay_ms after the current time.
enable_timeout_after(delay_ms) ==
    [active |-> TRUE, indicator |-> FALSE, fin_time |-> clock + (delay_ms \div 1000)]

\* A deadline is armed and has not fired.
Pending == timeout.active /\ ~timeout.indicator
\* A deadline is armed, has not fired, and its finish time is in the future.
Unexpired == Pending /\ clock < timeout.fin_time
\* The SIGALRM of the timeout is due.
Due == timeout.active /\ clock >= timeout.fin_time

\* maybeScheduleAlarm run without preemption (as in the handler, which has
\* the signals blocked): TRUE when it arms.
maybeScheduleAlarm ==
    IF TIMEOUT_INVALID THEN FALSE
    ELSE LET a == MSA_AfterIndicator(timeout.indicator)
         IN  IF a = "arm" THEN TRUE
             ELSE IF a = "compare"
             THEN MSA_AfterCompare(clock, timeout.fin_time) = "arm"
             ELSE FALSE

\* Variant: errno is left as the handler's calls set it.
RestoredErrno_NotRestored(saved, current) == current

\* errno = save_errno at the end of pg_retire_alarm_handler.
RestoredErrno(saved, current) == saved

\* Variant: the test of the status inverted.
doSanityCheck_Inverted(st) == IF st # 0 THEN TRUE ELSE FALSE

\* doSanityCheck, given what send_dummy_message_to_frontend returned.
doSanityCheck(st) == IF st # 0 THEN FALSE ELSE TRUE

\* Variant: the offset is not advanced after a partial write.
FlushWritten_NoAdvance(w, off, rr) ==
    LET left == w - rr
    IN  IF left = 0 THEN [loop |-> FALSE, status |-> 0, wlen |-> left, offset |-> off]
        ELSE IF left < 0 THEN [loop |-> FALSE, status |-> -1, wlen |-> left, offset |-> off]
        ELSE [loop |-> TRUE, status |-> 0, wlen |-> left, offset |-> off]

\* flush_cbuf after a write that returned rr > 0.
FlushWritten(w, off, rr) ==
    LET left == w - rr
    IN  IF left = 0 THEN [loop |-> FALSE, status |-> 0, wlen |-> left, offset |-> off]
        ELSE IF left < 0 THEN [loop |-> FALSE, status |-> -1, wlen |-> left, offset |-> off]
        ELSE [loop |-> TRUE, status |-> 0, wlen |-> left, offset |-> off + rr]

\* Variant: every errno other than EINTR ends the loop with 0.
FlushErrno_AlwaysZero(w, off, e) ==
    IF e = "EINTR" THEN [loop |-> TRUE, status |-> 0, wlen |-> w, offset |-> off]
    ELSE [loop |-> FALSE, status |-> 0, wlen |-> w, offset |-> off]

\* Variant: only EINTR is taken for transient.
FlushErrno_AgainFails(w, off, e) ==
    IF e = "EINTR" THEN [loop |-> TRUE, status |-> 0, wlen |-> w, offset |-> off]
    ELSE [loop |-> FALSE, status |-> -1, wlen |-> w, offset |-> off]

\* flush_cbuf when r <= 0: decided by errno.
FlushErrno(w, off, e) ==
    IF e = "EINTR" THEN [loop |-> TRUE, status |-> 0, wlen |-> w, offset |-> off]
    ELSE IF e = "EAGAIN" THEN [loop |-> FALSE, status |-> 0, wlen |-> w, offset |-> off]
    ELSE [loop |-> FALSE, status |-> -1, wlen |-> w, offset |-> off]

\* One iteration of the for (;;) of flush_cbuf, after r and errno are set.
FlushIteration(w, off, rr, e) ==
    IF rr > 0 THEN FlushWritten(w, off, rr) ELSE FlushErrno(w, off, e)

\* What write(2) of w > 0 bytes can give: the value returned and the errno
\* it leaves (errno is set only on -1).  A closed peer can still accept a
\* write; a hard error needs the peer to be gone.
PartialSizes(w) == {n \in {Chunk, 2 * Chunk} : 0 < n /\ n < w}
WriteOutcomes(w, e) ==
    [r : {w} \cup PartialSizes(w) \cup {0}, errno : {e}]
    \cup [r : {-1}, errno : {"EINTR", "EAGAIN"}]
    \cup (IF port.peer = "closed" THEN [r : {-1}, errno : HardErrnos] ELSE {})

\* The kind of an outcome of write(2), for the history.
WriteKind(o) ==
    IF o.r > 0 THEN "written"
    ELSE IF o.r = 0 THEN "zero"
    ELSE IF o.errno \in HardErrnos THEN "hard"
    ELSE o.errno

\* Values the uninitialised r of flush_cbuf can hold when no write assigns it.
GarbageR(pos) == {-1, 0, pos \div 2, pos, pos + 1}

(***************************************************************************)
(* Initial state: a backend that has loaded the library (_PG_init) and has *)
(* not yet authenticated its client.  The GUCs hold what postgresql.conf   *)
(* gives them.                                                             *)
(***************************************************************************)
Init ==
    /\ MyTimeoutId = "MAX_TIMEOUTS"
    /\ pg_retire_enable \in BOOLEAN
    /\ pg_retire_interval \in Intervals
    /\ InterruptPending = FALSE
    /\ ParallelMessagePending = FALSE
    /\ errno = "0"
    /\ timeout = [active |-> FALSE, indicator |-> FALSE, fin_time |-> 0]
    /\ clock = Epoch
    /\ port \in {p \in [proto : {2, 3}, ssl_in_use : BOOLEAN, peer : {"open"}] :
                    p.ssl_in_use => p.proto = 3}
    /\ mpc = "start"
    /\ cmd = "none"
    /\ timer_fired = FALSE
    /\ now = 0
    /\ hpc = "idle"
    /\ save_errno = "0"
    /\ cb = EmptyCbuf
    /\ wlen = 0
    /\ offset = 0
    /\ r = 0
    /\ status = 0
    /\ g = G0
    /\ h = H0
    /\ unit = U0

(***************************************************************************)
(* The main flow.  It runs only while no handler is running.               *)
(***************************************************************************)
\* pg_retire_ClientAuthentication(port, status).  RegisterTimeout gives a
\* timeout id or ends the backend (FATAL); a failed authentication ends the
\* backend after the hook.
ClientAuthentication(st, free) ==
    /\ mpc = "start" /\ hpc = "idle"
    /\ IF st = "STATUS_OK"
       THEN IF TIMEOUT_INVALID
            THEN IF free
                 THEN MyTimeoutId' = "USER_TIMEOUT" /\ mpc' = "authed"
                 ELSE MyTimeoutId' = MyTimeoutId /\ mpc' = "exited"
            ELSE MyTimeoutId' = MyTimeoutId /\ mpc' = "authed"
       ELSE MyTimeoutId' = MyTimeoutId /\ mpc' = "exited"
    /\ UNCHANGED << gucVars, flagVars, errno, timeout, clock, port, cmd,
                    mainLocals, hpc, handlerLocals, g, h, unit >>

\* The hook has returned; the backend waits for its first command.
BackendReady ==
    /\ mpc = "authed" /\ hpc = "idle"
    /\ mpc' = "idle"
    /\ UNCHANGED << MyTimeoutId, gucVars, flagVars, errno, timeout, clock, port,
                    cmd, mainLocals, hpc, handlerLocals, g, h, unit >>

\* A process that runs queries without authenticating a client (a
\* background worker): the hook of ClientAuthentication never runs.
BackgroundStart ==
    /\ mpc = "start" /\ hpc = "idle"
    /\ mpc' = "idle"
    /\ UNCHANGED << MyTimeoutId, gucVars, flagVars, errno, timeout, clock, port,
                    cmd, mainLocals, hpc, handlerLocals, g, h, unit >>

\* A unit of work is parsed: the host calls pg_retire_post_parse_analyze.
AcceptUnit(c) ==
    /\ mpc = "idle" /\ hpc = "idle"
    /\ mpc' = "hook"
    /\ cmd' = c
    /\ unit' = [U0 EXCEPT !.at0 = /\ c # "CMD_UTILITY"
                                  /\ clock = Epoch
                                  /\ pg_retire_enable
                                  /\ ~TIMEOUT_INVALID]
    /\ UNCHANGED << MyTimeoutId, gucVars, flagVars, errno, timeout, clock, port,
                    mainLocals, hpc, handlerLocals, g, h >>

\* pg_retire_post_parse_analyze: the three early returns.
HookCheck ==
    /\ mpc = "hook" /\ hpc = "idle"
    /\ IF HookSchedules
       THEN /\ mpc' = "ms_entry"
            /\ g' = [G0 EXCEPT !.ipChk = InterruptPending,
                               !.pmpChk = ParallelMessagePending]
       ELSE /\ mpc' = "running"
            /\ g' = G0
    /\ UNCHANGED << MyTimeoutId, gucVars, flagVars, errno, timeout, clock, port,
                    cmd, mainLocals, hpc, handlerLocals, h, unit >>

\* maybeScheduleAlarm: TIMEOUT_INVALID, then get_timeout_indicator.
MS_Indicator ==
    /\ mpc = "ms_entry" /\ hpc = "idle"
    /\ IF TIMEOUT_INVALID
       THEN /\ mpc' = "ret"
            /\ timer_fired' = timer_fired
            /\ g' = [g EXCEPT !.ret = "return_false"]
       ELSE /\ mpc' = "ms_fired"
            /\ timer_fired' = timeout.indicator
            /\ g' = [g EXCEPT !.pend0 = Unexpired, !.fin0 = timeout.fin_time]
    /\ UNCHANGED << MyTimeoutId, gucVars, flagVars, errno, timeout, clock, port,
                    cmd, now, hpc, handlerLocals, h, unit >>

\* maybeScheduleAlarm: if (timer_fired), else GetCurrentTimestamp.
MS_Fired ==
    /\ mpc = "ms_fired" /\ hpc = "idle"
    /\ LET a == MSA_AfterIndicator(timer_fired)
       IN  IF a = "arm"
           THEN mpc' = "ms_arm" /\ now' = now /\ g' = g
           ELSE IF a = "compare"
           THEN mpc' = "ms_cmp" /\ now' = clock /\ g' = g
           ELSE mpc' = "ret" /\ now' = now /\ g' = [g EXCEPT !.ret = a]
    /\ UNCHANGED << MyTimeoutId, gucVars, flagVars, errno, timeout, clock, port,
                    cmd, timer_fired, hpc, handlerLocals, h, unit >>

\* maybeScheduleAlarm: get_timeout_finish_time and the comparison.
MS_Compare ==
    /\ mpc = "ms_cmp" /\ hpc = "idle"
    /\ IF MSA_AfterCompare(now, timeout.fin_time) = "arm"
       THEN mpc' = "ms_arm" /\ g' = g
       ELSE mpc' = "ret" /\ g' = [g EXCEPT !.ret = "return_false"]
    /\ UNCHANGED << MyTimeoutId, gucVars, flagVars, errno, timeout, clock, port,
                    cmd, mainLocals, hpc, handlerLocals, h, unit >>

\* maybeScheduleAlarm: enable_timeout_after and return true.
MS_Arm ==
    /\ mpc = "ms_arm" /\ hpc = "idle"
    /\ timeout' = enable_timeout_after(MILLISECONDS(pg_retire_interval))
    /\ g' = [g EXCEPT !.armed = TRUE, !.over = Unexpired,
                      !.ip = InterruptPending, !.ret = "return_true"]
    /\ mpc' = "ret"
    /\ UNCHANGED << MyTimeoutId, gucVars, flagVars, errno, clock, port, cmd,
                    mainLocals, hpc, handlerLocals, h, unit >>

\* pg_retire_post_parse_analyze returns; the unit of work starts to run.
HookReturn ==
    /\ mpc = "ret" /\ hpc = "idle"
    /\ mpc' = "running"
    /\ timer_fired' = FALSE
    /\ now' = 0
    /\ g' = G0
    /\ UNCHANGED << MyTimeoutId, gucVars, flagVars, errno, timeout, clock, port,
                    cmd, hpc, handlerLocals, h, unit >>

\* The unit of work ends.
EndUnit ==
    /\ mpc = "running" /\ hpc = "idle"
    /\ mpc' = "idle"
    /\ cmd' = "none"
    /\ unit' = U0
    /\ UNCHANGED << MyTimeoutId, gucVars, flagVars, errno, timeout, clock, port,
                    mainLocals, hpc, handlerLocals, g, h >>

\* A utility unit of work that is SET pg_retire.enable / pg_retire.interval.
SetGUC(en, iv) ==
    /\ mpc = "running" /\ hpc = "idle"
    /\ cmd = "CMD_UTILITY"
    /\ pg_retire_enable' = en
    /\ pg_retire_interval' = iv
    /\ mpc' = "idle"
    /\ cmd' = "none"
    /\ unit' = U0
    /\ UNCHANGED << MyTimeoutId, flagVars, errno, timeout, clock, port,
                    mainLocals, hpc, handlerLocals, g, h >>

\* The main flow makes a system call that sets errno.
Syscall(e) ==
    /\ mpc \in {"idle", "running"} /\ hpc = "idle"
    /\ errno # e
    /\ errno' = e
    /\ UNCHANGED << MyTimeoutId, gucVars, flagVars, timeout, clock, port, mpc,
                    cmd, mainLocals, hpc, handlerLocals, g, h, unit >>

\* CHECK_FOR_INTERRUPTS in the host: the flags are cleared; a unit of work
\* that is running may be abandoned.
ProcessInterrupts(abandon) ==
    /\ mpc \in {"idle", "running"} /\ hpc = "idle"
    /\ InterruptPending
    /\ InterruptPending' = FALSE
    /\ ParallelMessagePending' = FALSE
    /\ IF abandon /\ mpc = "running"
       THEN mpc' = "idle" /\ cmd' = "none" /\ unit' = U0
       ELSE UNCHANGED << mpc, cmd, unit >>
    /\ UNCHANGED << MyTimeoutId, gucVars, errno, timeout, clock, port,
                    mainLocals, hpc, handlerLocals, g, h >>

(***************************************************************************)
(* The alarm handler.  handle_sig_alarm of utils/timeout.c takes the due   *)
(* timeout off the active list, sets its indicator and calls               *)
(* pg_retire_alarm_handler, which runs to its end before the main flow     *)
(* goes on.                                                                *)
(***************************************************************************)
\* The timeout expires: pg_retire_alarm_handler up to the first iteration
\* of flush_cbuf (save_errno, RETURN_IF_INTERRUPT_PENDING, BlockSig,
\* doSanityCheck, send_dummy_message_to_frontend, the head of flush_cbuf).
Expire ==
    /\ hpc = "idle" /\ Due
    /\ timeout' = [timeout EXCEPT !.active = FALSE, !.indicator = TRUE]
    /\ g' = IF InHook THEN [g EXCEPT !.fired = TRUE] ELSE g
    /\ IF RETURN_IF_INTERRUPT_PENDING
       THEN UNCHANGED << hpc, handlerLocals, h, unit >>
       ELSE /\ save_errno' = errno
            /\ h' = [H0 EXCEPT !.probed = TRUE,
                               !.ipChk = InterruptPending,
                               !.pmpChk = ParallelMessagePending,
                               !.errno0 = errno]
            /\ unit' = [unit EXCEPT !.after = unit.after \/ unit.cancels > 0]
            /\ IF DummyMessage(port.proto).pos = 0
               THEN /\ hpc' = "decide"
                    /\ status' = 0
                    /\ cb' = EmptyCbuf
                    /\ UNCHANGED << wlen, offset, r >>
               ELSE /\ hpc' = "flush"
                    /\ cb' = DummyMessage(port.proto)
                    /\ wlen' = cb'.pos
                    /\ offset' = 0
                    /\ \E rr \in (IF port.ssl_in_use THEN GarbageR(cb'.pos) ELSE {0}) :
                          r' = rr
                    /\ status' = status
    /\ UNCHANGED << MyTimeoutId, gucVars, flagVars, errno, clock, port, mpc, cmd,
                    mainLocals >>

\* One iteration of the loop of flush_cbuf: the write (none when
\* ssl_in_use) and the decision on r and errno.
FlushLoop ==
    /\ hpc = "flush"
    /\ \E o \in (IF port.ssl_in_use THEN {[r |-> r, errno |-> errno]}
                                  ELSE WriteOutcomes(wlen, errno)) :
          LET it == FlushIteration(wlen, offset, o.r, o.errno)
          IN  /\ errno' = o.errno
              /\ IF it.loop
                 THEN /\ hpc' = "flush"
                      /\ r' = o.r
                      /\ wlen' = it.wlen
                      /\ offset' = it.offset
                      /\ UNCHANGED << cb, status >>
                 ELSE \* flush_cbuf and send_dummy_message_to_frontend return
                      /\ hpc' = "decide"
                      /\ status' = it.status
                      /\ r' = 0
                      /\ wlen' = 0
                      /\ offset' = 0
                      /\ cb' = EmptyCbuf
              /\ h' = IF port.ssl_in_use THEN h
                      ELSE [h EXCEPT
                              !.called = TRUE,
                              !.last = WriteKind(o),
                              !.hard = h.hard \/ WriteKind(o) = "hard",
                              !.transient = h.transient /\
                                  WriteKind(o) \in {"written", "EINTR", "EAGAIN"}]
    /\ UNCHANGED << MyTimeoutId, gucVars, flagVars, timeout, clock, port, mpc,
                    cmd, mainLocals, save_errno, g, unit >>

\* pg_retire_alarm_handler after doSanityCheck: maybeScheduleAlarm when the
\* client is alive, cancelTransaction when it is not.
Decide ==
    /\ hpc = "decide"
    /\ IF doSanityCheck(status)
       THEN /\ IF maybeScheduleAlarm
               THEN /\ timeout' = enable_timeout_after(MILLISECONDS(pg_retire_interval))
                    /\ h' = [h EXCEPT !.assess = "Alive", !.armed = TRUE,
                                      !.over = Unexpired, !.ip = InterruptPending]
               ELSE /\ timeout' = timeout
                    /\ h' = [h EXCEPT !.assess = "Alive"]
            /\ unit' = unit
       ELSE /\ timeout' = timeout
            /\ h' = [h EXCEPT !.assess = "Dead", !.cancels = h.cancels + 1]
            /\ unit' = IF unit.at0 /\ unit.cancels < 2
                       THEN [unit EXCEPT !.cancels = unit.cancels + 1]
                       ELSE unit
    /\ hpc' = "unmask"
    /\ UNCHANGED << MyTimeoutId, gucVars, flagVars, errno, clock, port, mpc, cmd,
                    mainLocals, handlerLocals, g >>

\* PG_SETMASK(&UnBlockSig) and errno = save_errno.  The SIGINT that
\* cancelTransaction sent is delivered when the signals are unblocked: the
\* host's handler of SIGINT sets InterruptPending.
HandlerReturn ==
    /\ hpc = "unmask"
    /\ InterruptPending' = (InterruptPending \/ h.cancels > 0)
    /\ errno' = RestoredErrno(save_errno, errno)
    /\ hpc' = "idle"
    /\ save_errno' = "0"
    /\ status' = 0
    /\ h' = H0
    /\ UNCHANGED << MyTimeoutId, gucVars, ParallelMessagePending, timeout, clock,
                    port, mpc, cmd, mainLocals, cb, wlen, offset, r, g, unit >>

(***************************************************************************)
(* The environment.                                                        *)
(***************************************************************************)
\* A second passes.  SIGALRM is delivered when the timeout is due: time
\* does not pass a due timeout, nor while the handler runs.
Tick ==
    /\ hpc = "idle" /\ ~Due
    /\ mpc # "exited"
    /\ clock < Epoch + MaxTicks
    /\ clock' = clock + 1
    /\ UNCHANGED << MyTimeoutId, gucVars, flagVars, errno, timeout, port, mpc,
                    cmd, mainLocals, hpc, handlerLocals, g, h, unit >>

\* The client goes away.
ClosePeer ==
    /\ hpc = "idle" /\ mpc \notin {"start", "exited"}
    /\ port.peer = "open"
    /\ port' = [port EXCEPT !.peer = "closed"]
    /\ unit' = [unit EXCEPT !.early = /\ unit.at0
                                     /\ clock < Epoch + pg_retire_interval]
    /\ UNCHANGED << MyTimeoutId, gucVars, flagVars, errno, timeout, clock, mpc,
                    cmd, mainLocals, hpc, handlerLocals, g, h >>

\* A signal handler of the host raises InterruptPending (a cancel or
\* terminate request) or, for a parallel message, both flags.
RaiseInterrupt(parallel) ==
    /\ hpc = "idle" /\ mpc \notin {"start", "exited"}
    /\ ~InterruptPending \/ (parallel /\ ~ParallelMessagePending)
    /\ InterruptPending' = TRUE
    /\ ParallelMessagePending' = (ParallelMessagePending \/ parallel)
    /\ UNCHANGED << MyTimeoutId, gucVars, errno, timeout, clock, port, mpc, cmd,
                    mainLocals, hpc, handlerLocals, g, h, unit >>

Next ==
    \/ \E st \in {"STATUS_OK", "STATUS_ERROR"}, free \in BOOLEAN :
          ClientAuthentication(st, free)
    \/ BackendReady
    \/ BackgroundStart
    \/ \E c \in {"CMD_SELECT", "CMD_UTILITY"} : AcceptUnit(c)
    \/ HookCheck
    \/ MS_Indicator
    \/ MS_Fired
    \/ MS_Compare
    \/ MS_Arm
    \/ HookReturn
    \/ EndUnit
    \/ \E en \in BOOLEAN, iv \in Intervals : SetGUC(en, iv)
    \/ \E e \in Errnos : Syscall(e)
    \/ \E a \in BOOLEAN : ProcessInterrupts(a)
    \/ Expire
    \/ FlushLoop
    \/ Decide
    \/ HandlerReturn
    \/ Tick
    \/ ClosePeer
    \/ \E p \in BOOLEAN : RaiseInterrupt(p)

Spec == Init /\ [][Next]_vars

(***************************************************************************)
(* write_cbuf on its own: a caller appends to a CharBuffer that starts     *)
(* with pos = 0.  Here wlen holds the len of the last call, r the value it *)
(* returned and offset the number of calls made.                           *)
(***************************************************************************)
\* The byte arrays a caller passes: WBUFSIZE + 1 bytes each.
Sources ==
    { [i \in 1 .. (WBUFSIZE + 1) |-> (i + k) % 256] : k \in {0, WBUFSIZE} }
\* The values of len.
AppendLens ==
    {0, 1, SizeofInt, WBUFSIZE \div 2, WBUFSIZE - 1, WBUFSIZE, WBUFSIZE + 1}

BufInit ==
    /\ Init
    /\ ~pg_retire_enable
    /\ pg_retire_interval = 0
    /\ port.proto = 3 /\ ~port.ssl_in_use

\* r = write_cbuf(&cb, src, len)
BufAppend(src, len) ==
    /\ offset < MaxAppends
    /\ LET w == write_cbuf(cb, src, len)
       IN  /\ cb' = w.cb
           /\ r' = w.ret
    /\ wlen' = len
    /\ offset' = offset + 1
    /\ UNCHANGED << MyTimeoutId, gucVars, flagVars, errno, timeout, clock, port,
                    mpc, cmd, mainLocals, hpc, save_errno, status, g, h, unit >>

BufNext == \E src \in Sources, len \in AppendLens : BufAppend(src, len)

BufSpec == BufInit /\ [][BufNext]_vars

(***************************************************************************)
(* Properties.                                                             *)
(***************************************************************************)

\* C1: in a handler run that makes the probe, a write that fails with a
\* hard error gives Dead and exactly one call of cancelTransaction;
\* cancelTransaction is called at most once in a run, and only in a run
\* that made the probe and assessed Dead, never after Alive.
C1_HardErrorCancelsOnce ==
    /\ (hpc = "decide" /\ h.hard) => status # 0
    /\ (hpc = "unmask" /\ h.hard) => (h.assess = "Dead" /\ h.cancels = 1)
    /\ h.cancels <= 1
    /\ h.cancels > 0 => (h.probed /\ hpc = "unmask" /\ h.assess = "Dead")
    /\ h.assess = "Alive" => h.cancels = 0

\* A probe whose write failed hard has been assessed Dead and cancelled.
C1_Witness ==
    hpc = "unmask" /\ h.hard /\ h.assess = "Dead" /\ h.cancels = 1

\* The intervals whose milliseconds fit an int.
NoOverflow == pg_retire_interval <= INT_MAX \div 1000

C3_DisabledDoesNothing ==
    ~pg_retire_enable =>
        /\ ~g.armed
        /\ ~h.armed
        /\ ~h.probed
        /\ ~h.called
        /\ h.cancels = 0

\* C4 (as claimed): no deadline is armed, by the hook or by the handler,
\* while InterruptPending is set.
C4_NoArmWhileInterruptPending ==
    /\ g.armed => ~g.ip
    /\ h.armed => ~h.ip

\* C5 (as claimed): for I > 0, after an Alive probe the next deadline is
\* armed at now + I; a call of maybeScheduleAlarm that starts while that
\* deadline is pending and ends before it elapses returns false and leaves
\* the finish time unchanged.
C5_RearmAtNowPlusI ==
    /\ (hpc = "unmask" /\ h.assess = "Alive" /\ pg_retire_interval > 0) =>
          (Pending /\ timeout.fin_time = clock + pg_retire_interval)
    /\ (mpc = "ret" /\ hpc = "idle" /\ g.pend0 /\ clock < g.fin0) =>
          (g.ret = "return_false" /\ timeout.fin_time = g.fin0)

\* C6 (as claimed): enable_timeout_after is called only when no unexpired
\* deadline is pending.
C6_NeverArmOverPending ==
    /\ ~g.over
    /\ ~h.over

\* C7 (as claimed): when the authentication hook returns after status OK
\* and a successful registration, a deadline is armed.
C7_ArmedAfterAuthentication ==
    (mpc = "authed" /\ ~TIMEOUT_INVALID) => Pending

\* C8: when the hook returns for a query, with a registered timeout, the
\* watchdog enabled and no interrupt pending, a deadline that has not fired
\* is pending: the one the call armed, the one the handler armed again
\* after it, or the pending one the call kept.
C8_ArmedAfterHook ==
    (mpc = "ret" /\ hpc = "idle" /\ ~InterruptPending) =>
        /\ Pending
        /\ g.ret \in {"return_true", "return_false"}
        /\ g.ret = "return_true" => g.armed

\* The hook is about to return having armed a deadline because the
\* previous one had fired.
C8_Witness ==
    /\ mpc = "ret" /\ hpc = "idle" /\ ~InterruptPending
    /\ timer_fired /\ g.armed /\ g.ret = "return_true" /\ Pending

\* C9: a probe whose writes gave only positive counts, EINTR and EAGAIN is
\* never Dead and triggers no cancellation (so EAGAIN on the first attempt
\* gives Alive); a write interrupted by EINTR is retried with the same
\* offset and length.
C9_TransientNeverDead ==
    /\ [](/\ (hpc = "decide" /\ h.called /\ h.transient) => status = 0
          /\ (hpc = "unmask" /\ h.called /\ h.transient) =>
                (h.assess = "Alive" /\ h.cancels = 0)
          /\ (hpc = "decide" /\ h.called /\ h.last = "EAGAIN") => status = 0)
    /\ [][(hpc = "flush" /\ h'.last = "EINTR") =>
             (hpc' = "flush" /\ wlen' = wlen /\ offset' = offset /\ cb' = cb)]_vars

\* A probe whose last write would block has been assessed Alive.
C9_Witness ==
    /\ hpc = "unmask" /\ h.called /\ h.transient /\ h.last = "EAGAIN"
    /\ h.assess = "Alive" /\ h.cancels = 0

\* C10 (as claimed): on a connection with ssl_in_use the probe writes
\* nothing and is Alive whatever errno and the locals held: the handler
\* reschedules and never cancels.
C10_SslAlwaysAlive ==
    port.ssl_in_use =>
        /\ ~h.called
        /\ hpc = "decide" => status = 0
        /\ hpc = "unmask" => (h.assess = "Alive" /\ h.armed)
        /\ h.cancels = 0

\* C11: the buffer handed to flush_cbuf.  For protocol major >= 3 it is the
\* byte 'S', the four bytes of the total length len(K)+1 + len(V)+1 + 4 in
\* big-endian order, then K and V, each followed by a NUL, and the cursor is
\* 1 + total length; for an older protocol it is the byte 'N' and the
\* notice text followed by a NUL.
C11_PayloadFormat ==
    hpc = "flush" =>
        LET K     == PGRETIRE_DUMMY_PAREMETER_NAME
            V     == PGRETIRE_DUMMY_PAREMETER_VALUE
            total == (Len(K) + 1) + (Len(V) + 1) + 4
        IN  IF port.proto >= 3
            THEN /\ total < 256
                 /\ cb.buf = <<83, 0, 0, 0, total>> \o K \o <<0>> \o V \o <<0>>
                 /\ cb.pos = 1 + total
                 /\ cb.pos = Len(cb.buf)
            ELSE /\ cb.buf = <<78>> \o PGRETIRE_KEEP_ALIVE_MESSAGE \o <<0>>
                 /\ cb.pos = Len(cb.buf)

\* A probe of a protocol 3 connection is being flushed.
C11_Witness ==
    hpc = "flush" /\ port.proto >= 3 /\ cb.pos > 1 /\ cb.buf[1] = 83

\* C12 (of BufSpec): the cursor never exceeds WBUFSIZE; a call of write_cbuf
\* with pos + len > WBUFSIZE returns -1 and leaves the cursor and the bytes
\* as they were, and a call with pos + len <= WBUFSIZE returns len, advances
\* the cursor by len and appends the first len bytes of its source.
C12_WriteCbufBounds ==
    /\ [](cb.pos <= WBUFSIZE /\ cb.pos = Len(cb.buf))
    /\ [][IF cb.pos + wlen' > WBUFSIZE
          THEN r' = -1 /\ cb' = cb
          ELSE /\ r' = wlen'
               /\ cb'.pos = cb.pos + wlen'
               /\ \E src \in Sources :
                     cb'.buf = cb.buf \o SubSeq(src, 1, wlen')]_vars

\* An append that did not fit was refused after appends that did.
C12_Witness ==
    /\ hpc = "idle" /\ mpc = "start"
    /\ offset > 1 /\ r = -1 /\ cb.pos > 0 /\ cb.pos + wlen > WBUFSIZE

\* C13: the hook called for a utility statement returns without calling
\* maybeScheduleAlarm and leaves the timeout (armed or not, indicator,
\* finish time) as it was, in every state.
C13_UtilityLeavesTimer ==
    /\ [](cmd = "CMD_UTILITY" =>
            mpc \notin {"ms_entry", "ms_fired", "ms_cmp", "ms_arm", "ret"})
    /\ [][(mpc = "hook" /\ cmd = "CMD_UTILITY" /\ mpc' # "hook") =>
             (mpc' = "running" /\ timeout' = timeout)]_vars

\* A utility statement runs with the watchdog enabled, a registered timeout
\* that has fired and no interrupt pending: a query would have armed.
C13_Witness ==
    /\ mpc = "running" /\ cmd = "CMD_UTILITY"
    /\ pg_retire_enable /\ ~TIMEOUT_INVALID /\ ~InterruptPending
    /\ timeout.indicator /\ ~timeout.active

\* C14: when the handler returns, by its early return or after an Alive or
\* a Dead assessment, errno has the value it had when the handler was
\* entered, whatever the writes of the probe set it to.
C14_ErrnoRestored ==
    /\ [](hpc # "idle" => save_errno = h.errno0)
    /\ [][(hpc = "unmask" /\ hpc' = "idle") => errno' = h.errno0]_vars
    /\ [][(hpc = "idle" /\ hpc' = "idle" /\ timeout.active /\ ~timeout'.active) =>
             errno' = errno]_vars

\* A handler run is about to return after a probe that changed errno.
C14_Witness ==
    hpc = "unmask" /\ errno # h.errno0 /\ h.assess = "Dead"

\* C15: while MyTimeoutId is MAX_TIMEOUTS the timeout is never armed,
\* maybeScheduleAlarm returns false, and no handler runs: no probe is
\* written and cancelTransaction is not called.
C15_NoHandleNoWatchdog ==
    MyTimeoutId = "MAX_TIMEOUTS" =>
        /\ timeout = [active |-> FALSE, indicator |-> FALSE, fin_time |-> 0]
        /\ ~maybeScheduleAlarm
        /\ ~g.armed /\ g.ret # "return_true"
        /\ hpc = "idle"
        /\ ~h.probed /\ ~h.called /\ h.cancels = 0

\* A query runs, with the watchdog enabled, in a backend that has no
\* timeout id.
C15_Witness ==
    /\ MyTimeoutId = "MAX_TIMEOUTS" /\ pg_retire_enable
    /\ mpc = "running" /\ cmd = "CMD_SELECT"

\* C16: on a plain connection every write of flush_cbuf is made at offset
\* with length wlen = pos - offset; a write that returns 0 < r < wlen
\* advances offset by r and leaves wlen - r to write, so the bytes go out
\* once and in order; the write that brings wlen to 0 ends the loop with 0,
\* and the assessment is Alive.
C16_PartialWritesInOrder ==
    /\ []((hpc = "flush" /\ ~port.ssl_in_use) =>
            (offset >= 0 /\ wlen > 0 /\ offset + wlen = cb.pos))
    /\ []((hpc = "unmask" /\ ~port.ssl_in_use /\ h.last = "written") =>
            h.assess = "Alive")
    /\ [][(hpc = "flush" /\ ~port.ssl_in_use /\ h'.last = "written") =>
             IF hpc' = "flush"
             THEN /\ 0 < r' /\ r' < wlen
                  /\ offset' = offset + r'
                  /\ wlen' = wlen - r'
                  /\ cb' = cb
             ELSE hpc' = "decide" /\ status' = 0]_vars

\* Two partial writes of Chunk bytes have been made and the loop goes on.
C16_Witness ==
    /\ hpc = "flush" /\ ~port.ssl_in_use
    /\ h.last = "written" /\ h.transient
    /\ r = Chunk /\ offset = 2 * Chunk /\ wlen = cb.pos - 2 * Chunk

\* C17 (as claimed): the loop of flush_cbuf ends unless write is interrupted
\* for ever: every iteration that is not a write failing with EINTR either
\* leaves the loop or leaves fewer bytes to write (wlen decreases), on a
\* plain and on an encrypted connection, for every errno at entry and
\* every result of write, 0 included.
C17_HandlerTerminates ==
    hpc = "flush" =>
        IF port.ssl_in_use
        THEN LET it == FlushIteration(wlen, offset, r, errno)
             IN  ~it.loop \/ it.wlen < wlen
        ELSE \A o \in WriteOutcomes(wlen, errno) :
                WriteKind(o) # "EINTR" =>
                    LET it == FlushIteration(wlen, offset, o.r, o.errno)
                    IN  ~it.loop \/ it.wlen < wlen

\* C18 (as claimed): the delay handed to enable_timeout_after for the
\* interval I is I * 1000: not negative, a multiple of 1000, and I when
\* divided by 1000.
C18_DelayIsIntervalTimes1000 ==
    (g.armed \/ h.armed) =>
        LET d == MILLISECONDS(pg_retire_interval)
        IN  d >= 0 /\ d % 1000 = 0 /\ d \div 1000 = pg_retire_interval

\* C19 (as claimed): when flush_cbuf returns 0 on a plain connection, either
\* the write that ended it completed the message or no byte had been
\* written before it.
C19_AliveWholeMessage ==
    [][(hpc = "flush" /\ ~port.ssl_in_use /\ hpc' = "decide" /\ status' = 0) =>
          (h'.last = "written" \/ offset = 0)]_vars

\* C20: the hook goes on to maybeScheduleAlarm only when pg_retire_enable
\* is true at the call; a timeout that was never armed is not active, has
\* not fired and no handler runs; and the first arm is made by
\* maybeScheduleAlarm called from the hook.  So with pg_retire_enable
\* false at every call of the hook, no deadline is armed, no handler runs,
\* no probe is written and no cancellation is sent.
C20_DefaultOff ==
    /\ [](mpc \in {"ms_entry", "ms_fired", "ms_cmp", "ms_arm", "ret"} =>
            pg_retire_enable)
    /\ [](timeout.fin_time = 0 =>
            /\ ~timeout.active /\ ~timeout.indicator
            /\ hpc = "idle"
            /\ ~h.probed /\ ~h.called /\ h.cancels = 0)
    /\ [][(timeout.fin_time = 0 /\ timeout'.fin_time # 0) =>
             (mpc = "ms_arm" /\ pg_retire_enable)]_vars

\* A query runs, after the first second, on an authenticated connection
\* with pg_retire_enable false, and no deadline was ever armed.
C20_Witness ==
    /\ ~pg_retire_enable /\ ~TIMEOUT_INVALID
    /\ mpc = "running" /\ cmd = "CMD_SELECT"
    /\ clock > Epoch
    /\ timeout.fin_time = 0 /\ hpc = "idle"

====


